---- MODULE Spec2Model ----
(***************************************************************************)
(* Model of src/rocket.py: the Rocket / Stage / Payload aggregate.         *)
(*                                                                         *)
(* Python floats are modelled as exact rationals <<n, d>> (d > 0, lowest   *)
(* terms): the finite floats, with exact arithmetic.  Rounding, infinities *)
(* and NaN are outside the model.  A Vector is a triple of such numbers.   *)
(* Stage objects are records carrying an identity (id); every Stage handed *)
(* to the rocket is a freshly constructed one, as the exclusive-ownership  *)
(* rule of the data model requires.  Stage.length and Stage.axis, which no  *)
(* operation modelled here reads or writes, are left out of the record.    *)
(*                                                                         *)
(* The Vector class is not part of rocket.py.  Its scalar multiple and     *)
(* quotient are taken componentwise, and dividing by a zero total_mass is  *)
(* taken to raise ZeroDivisionError, as float division does.               *)
(*                                                                         *)
(* Three specifications are defined over the same variables:               *)
(*   Spec       the Rocket's mass / staging / throttle interface,          *)
(*   SpecStage  one Stage driven directly (set_throttle, update_mass),     *)
(*   SpecAtt    the Rocket's orientation (set_roll_rate, set_attitude).    *)
(* set_attitude reads and writes only axis and roll_rate, which no mass or *)
(* staging operation reads, so the split loses no interaction.             *)
(***************************************************************************)
EXTENDS Integers, Sequences, FiniteSets

VARIABLES
    stages,     \* Rocket.stages: list of Stage, index 1 here = index 0 there
    srbs,       \* Rocket.srbs: list of Stage
    payloads,   \* Rocket.payloads: list of payload masses
    momentum,   \* Rocket.momentum: Vector
    roll_rate,  \* Rocket.roll_rate, in AngleUnit per unit time
    axis,       \* Rocket.axis = (sin a, cos a, 0), held as a in 0 .. FullTurn-1
    result,     \* how the last call ended: "ok", or "error" when it raised
    nextId,     \* identity given to the next Stage constructed
    ticks,      \* number of successful update calls so far (bounds the run)
    added,      \* history: ids handed to add_stage, in call order
    nSep,       \* history: number of successful separate_active_stage calls
    jettisoned, \* history: ids of the stages and boosters separated so far
    expected,   \* history: sum of roll_rate * dt over the set_attitude calls
    unit,       \* SpecStage: the Stage under test
    unit0,      \* SpecStage: that Stage when the current run of updates began
    run_dt,     \* SpecStage: the time step of the current run of updates
    run_n       \* SpecStage: the number of updates in the current run

vars == <<stages, srbs, payloads, momentum, roll_rate, axis, result,
          nextId, ticks, added, nSep, jettisoned, expected,
          unit, unit0, run_dt, run_n>>

----------------------------------------------------------------------------
(* Bounds of the model. *)

\* Stages, boosters and payloads handed to the rocket in one run.
MaxParts == 2
\* Successful update_total_mass calls in one run of Spec.
MaxTicks == 1
\* Stage.update_mass calls in one run of SpecStage.
MaxRun == 3

(* Program constants. *)

\* Throttle is a percentage: the divisor of throttle/100 and the value
\* ignite_srbs commands.
Percent == 100
\* Angles are counted in units of pi/6, so a full turn is 12 units and the
\* range of arccos, [0, pi], is 0 .. 6.
FullTurn == 12

----------------------------------------------------------------------------
(* Float arithmetic. *)

Abs(n) == IF n < 0 THEN -n ELSE n

RECURSIVE GCD(_, _)
GCD(a, b) == IF b = 0 THEN a ELSE GCD(b, a % b)

\* The float n/d, d # 0, in lowest terms with a positive denominator.
Norm(n, d) ==
    LET g == GCD(Abs(n), Abs(d))
        s == IF d < 0 THEN -1 ELSE 1
    IN  <<(s * n) \div g, (s * d) \div g>>

R(n) == <<n, 1>>

Zero == R(0)

float_add(a, b) == Norm(a[1] * b[2] + b[1] * a[2], a[2] * b[2])

float_sub(a, b) == Norm(a[1] * b[2] - b[1] * a[2], a[2] * b[2])

float_mul(a, b) == Norm(a[1] * b[1], a[2] * b[2])

\* a / b for b # 0 (the callers raise ZeroDivisionError before using it).
float_div(a, b) == Norm(a[1] * b[2], a[2] * b[1])

float_lt(a, b) == a[1] * b[2] < b[1] * a[2]
float_gt(a, b) == float_lt(b, a)
float_le(a, b) == a[1] * b[2] <= b[1] * a[2]
float_ge(a, b) == float_le(b, a)

(* Vector: the three components; scalar multiple and scalar quotient. *)

ZeroVector == <<Zero, Zero, Zero>>

vector_rmul(m, v) == [i \in 1..3 |-> float_mul(m, v[i])]

vector_div(v, m) == [i \in 1..3 |-> float_div(v[i], m)]

----------------------------------------------------------------------------
(* Stage. *)

\* Stage.__init__: the checks on the configuration record.  Each value is
\* rejected when it is < 0.0.
StageValid(options) ==
    /\ ~float_lt(options.dry_mass, Zero)
    /\ ~float_lt(options.fuel_mass, Zero)
    /\ ~float_lt(options.max_thrust_mag, Zero)
    /\ ~float_lt(options.max_dmdt, Zero)

\* Stage.__init__: the object built from a configuration record.
Stage(id, options) ==
    [id |-> id,
     dry_mass |-> options.dry_mass,
     fuel_mass |-> options.fuel_mass,
     max_thrust_mag |-> options.max_thrust_mag,
     max_dmdt |-> options.max_dmdt,
     throttle |-> Zero]

\* Mutant of set_throttle: the upper limit is not checked.
set_throttle_no_upper_limit(stage, isFloat, throttle) ==
    IF isFloat
    THEN IF float_lt(throttle, Zero)
         THEN [result |-> "ValueError", stage |-> stage]
         ELSE [result |-> "ok", stage |-> [stage EXCEPT !.throttle = throttle]]
    ELSE [result |-> "TypeError", stage |-> stage]

\* Stage.set_throttle: the outcome and the stage after the call.
set_throttle(stage, isFloat, throttle) ==
    IF isFloat
    THEN IF float_gt(throttle, R(Percent)) \/ float_lt(throttle, Zero)
         THEN [result |-> "ValueError", stage |-> stage]
         ELSE [result |-> "ok", stage |-> [stage EXCEPT !.throttle = throttle]]
    ELSE [result |-> "TypeError", stage |-> stage]

current_fuel_consumption(stage) ==
    float_div(float_mul(stage.max_dmdt, stage.throttle), R(Percent))

\* Mutant of update_mass: burns at the full rate whatever the throttle is.
update_mass_full_rate(stage, time_step) ==
    [stage EXCEPT !.fuel_mass =
        float_sub(@, float_mul(stage.max_dmdt, time_step))]

\* Stage.update_mass: the stage after the call.
update_mass(stage, time_step) ==
    [stage EXCEPT !.fuel_mass =
        float_sub(@, float_mul(current_fuel_consumption(stage), time_step))]

----------------------------------------------------------------------------
(* Inputs offered to the operations. *)

\* Configuration records given to Stage(...): a fuelled stage, the record of
\* defaults ({} : every field 0.0), and one the constructor rejects.
StageOptions ==
    { [dry_mass |-> R(1), fuel_mass |-> R(1), max_thrust_mag |-> R(10),
       max_dmdt |-> R(2)],
      [dry_mass |-> R(0), fuel_mass |-> R(0), max_thrust_mag |-> R(0),
       max_dmdt |-> R(0)],
      [dry_mass |-> R(1), fuel_mass |-> R(-1), max_thrust_mag |-> R(10),
       max_dmdt |-> R(1)] }

\* Masses given to Payload(...); Payload.__init__ rejects those not > 0.0.
PayloadMasses == { R(1), R(0) }

\* Float arguments of adjust_throttle.
ThrottleInputs == { R(50), R(Percent + 1) }

\* Float arguments of set_throttle when Spec calls it on a stage directly.
DirectThrottles == { R(0), R(Percent), R(-1), R(Percent + 1) }

\* Float arguments of update_total_mass / update_mass.
TimeSteps == { R(1), R(0) }

\* What a caller passes when the argument is not a float: the int 50.
NotAFloat == R(50)

\* What a caller passes to add_stage / add_srb when it is no Stage: a dict.
NotAStage == [dry_mass |-> R(1)]

\* Momenta the simulation driver integrates into Rocket.momentum.
Momenta == { <<R(6), R(-12), R(0)>> }

\* Float arguments of set_roll_rate, in units of pi/6 per unit time: those
\* offered in Spec, and those offered in SpecAtt.
RollRates == { 0, 1 }
TurnRates == { -1, 1, 4 }

\* Arguments of set_attitude.
TurnSteps == { 1, 2 }

\* Arguments of Stage.set_throttle and Stage.update_mass in SpecStage.
StageThrottles == ThrottleInputs \cup DirectThrottles
StageTimeSteps == TimeSteps \cup { R(2), R(-1) }

----------------------------------------------------------------------------
(* Rocket. *)

RECURSIVE SumStages(_)
SumStages(s) ==
    IF s = <<>> THEN Zero
    ELSE float_add(float_add(s[1].dry_mass, s[1].fuel_mass), SumStages(Tail(s)))

RECURSIVE SumPayloads(_)
SumPayloads(p) ==
    IF p = <<>> THEN Zero ELSE float_add(p[1], SumPayloads(Tail(p)))

\* Rocket.total_mass of a rocket holding these boosters, stages and payloads.
total_mass_of(sr, st, pl) ==
    float_add(float_add(SumStages(sr), SumStages(st)), SumPayloads(pl))

total_mass == total_mass_of(srbs, stages, payloads)

\* Mutant of pop0: list.pop(), which removes the last element.
pop_last(s) == SubSeq(s, 1, Len(s) - 1)

\* list.pop(0)
pop0(s) == Tail(s)

\* Mutant of burning: every stage burns, not only the active one.
burning_all(s) == 1..Len(s)

\* if len(self.stages) > 0: stage = self.stages[0] : the indices (from 1) of
\* the stages update_total_mass updates.
burning(s) == IF Len(s) > 0 THEN {1} ELSE {}

\* Mutant of no_boosters: only the first booster is dropped.
first_booster_dropped(s) == IF s = <<>> THEN s ELSE Tail(s)

\* self.srbs = [] : the booster list after separating the boosters s.
no_boosters(s) == <<>>

\* Mutant of rescaled: the momentum is left as it was.
not_rescaled(p, mass_before, mass_after) == p

\* velocity = momentum / total_mass (before), momentum = total_mass (after)
\* * velocity.
rescaled(p, mass_before, mass_after) ==
    vector_rmul(mass_after, vector_div(p, mass_before))

attVars == <<axis, expected>>
stageVars == <<unit, unit0, run_dt, run_n>>
histVars == <<added, nSep, jettisoned>>

\* A call that raises exception exc before changing anything.  Which class
\* of exception was raised is not recorded, only that the call failed.
Raise(exc) ==
    /\ result' = "error"
    /\ UNCHANGED <<stages, srbs, payloads, momentum, roll_rate, nextId, ticks>>
    /\ UNCHANGED histVars

Done == result' = "ok"

\* rocket.add_stage(x): x is Stage(options) or something that is no Stage.
add_stage ==
    /\ UNCHANGED <<attVars, stageVars>>
    /\ \E isStage \in BOOLEAN :
       \E options \in IF isStage THEN StageOptions ELSE {NotAStage} :
        IF isStage
        THEN /\ StageValid(options)
             /\ nextId + Len(payloads) <= MaxParts
             /\ stages' = Append(stages, Stage(nextId, options))
             /\ nextId' = nextId + 1
             /\ added' = Append(added, nextId)
             /\ Done
             /\ UNCHANGED <<srbs, payloads, momentum, roll_rate, ticks, nSep,
                            jettisoned>>
        ELSE Raise("TypeError")

add_srb ==
    /\ UNCHANGED <<attVars, stageVars>>
    /\ \E isStage \in BOOLEAN :
       \E options \in IF isStage THEN StageOptions ELSE {NotAStage} :
        IF isStage
        THEN /\ StageValid(options)
             /\ nextId + Len(payloads) <= MaxParts
             /\ srbs' = Append(srbs, Stage(nextId, options))
             /\ nextId' = nextId + 1
             /\ Done
             /\ UNCHANGED <<stages, payloads, momentum, roll_rate, ticks>>
             /\ UNCHANGED histVars
        ELSE Raise("TypeError")

add_payload ==
    /\ UNCHANGED <<attVars, stageVars>>
    /\ \E isPayload \in BOOLEAN :
       \E mass \in IF isPayload THEN PayloadMasses ELSE {NotAFloat} :
        IF isPayload
        THEN /\ float_gt(mass, Zero)
             /\ nextId + Len(payloads) <= MaxParts
             /\ payloads' = Append(payloads, mass)
             /\ Done
             /\ UNCHANGED <<stages, srbs, momentum, roll_rate, nextId, ticks>>
             /\ UNCHANGED histVars
        ELSE Raise("TypeError")

update_total_mass ==
    /\ UNCHANGED <<attVars, stageVars>>
    /\ \E isFloat \in BOOLEAN :
       \E time_step \in IF isFloat THEN TimeSteps ELSE {NotAFloat} :
        IF isFloat
        THEN IF float_gt(time_step, Zero)
             THEN /\ ticks < MaxTicks
                  /\ ticks' = ticks + 1
                  /\ stages' = [i \in 1..Len(stages) |->
                                  IF i \in burning(stages)
                                  THEN update_mass(stages[i], time_step)
                                  ELSE stages[i]]
                  /\ srbs' = [i \in 1..Len(srbs) |->
                                update_mass(srbs[i], time_step)]
                  /\ Done
                  /\ UNCHANGED <<payloads, momentum, roll_rate, nextId>>
                  /\ UNCHANGED histVars
             ELSE Raise("ValueError")
        ELSE Raise("TypeError")

\* Mutant of separate_active_stage: the stage is popped before the velocity
\* is computed, so the division fails after the list has changed.
separate_active_stage_pops_first ==
    /\ UNCHANGED <<attVars, stageVars>>
    /\ IF Len(stages) = 0
       THEN Raise("IndexError")
       ELSE /\ stages' = pop0(stages)
            /\ nSep' = nSep + 1
            /\ jettisoned' = jettisoned \cup {stages[1].id}
            /\ UNCHANGED <<srbs, payloads, roll_rate, nextId, ticks, added>>
            /\ IF total_mass_of(srbs, stages', payloads) = Zero
               THEN result' = "error" /\ UNCHANGED momentum
               ELSE /\ momentum' =
                          vector_rmul(total_mass,
                              vector_div(momentum,
                                  total_mass_of(srbs, stages', payloads)))
                    /\ Done

\* rocket.separate_active_stage()
separate_active_stage ==
    /\ UNCHANGED <<attVars, stageVars>>
    /\ IF total_mass = Zero
       THEN Raise("ZeroDivisionError")
       ELSE IF Len(stages) = 0
       THEN Raise("IndexError")
       ELSE     /\ stages' = pop0(stages)
                /\ momentum' =
                      rescaled(momentum, total_mass,
                               total_mass_of(srbs, stages', payloads))
                /\ nSep' = nSep + 1
                /\ jettisoned' = jettisoned \cup {stages[1].id}
                /\ Done
                /\ UNCHANGED <<srbs, payloads, roll_rate, nextId, ticks, added>>

separate_srbs ==
    /\ UNCHANGED <<attVars, stageVars>>
    /\ IF total_mass = Zero
       THEN Raise("ZeroDivisionError")
       ELSE     /\ srbs' = no_boosters(srbs)
                /\ momentum' =
                      rescaled(momentum, total_mass,
                               total_mass_of(srbs', stages, payloads))
                /\ jettisoned' =
                      jettisoned \cup {srbs[i].id : i \in 1..Len(srbs)}
                /\ Done
                /\ UNCHANGED <<stages, payloads, roll_rate, nextId, ticks,
                               added, nSep>>

\* rocket.set_roll_rate(x), x a float among rates or the int 1.
set_roll_rate(rates) ==
    /\ UNCHANGED <<attVars, stageVars>>
    /\ \E isFloat \in BOOLEAN :
       \E rate \in IF isFloat THEN rates ELSE {1} :
        IF isFloat
        THEN /\ roll_rate' = rate
             /\ Done
             /\ UNCHANGED <<stages, srbs, payloads, momentum, nextId, ticks>>
             /\ UNCHANGED histVars
        ELSE Raise("TypeError")

\* rocket.adjust_throttle(throttle)
adjust_throttle_call(isFloat, throttle) ==
    IF Len(stages) > 0
    THEN IF isFloat
         THEN IF float_ge(throttle, Zero) /\ float_le(throttle, R(Percent))
              THEN LET r == set_throttle(stages[1], isFloat, throttle)
                   IN  /\ stages' = [stages EXCEPT ![1] = r.stage]
                       /\ result' = IF r.result = "ok" THEN "ok" ELSE "error"
                       /\ UNCHANGED <<srbs, payloads, momentum, roll_rate,
                                      nextId, ticks>>
                       /\ UNCHANGED histVars
              ELSE Raise("ValueError")
         ELSE Raise("TypeError")
    ELSE /\ Done
         /\ UNCHANGED <<stages, srbs, payloads, momentum, roll_rate, nextId,
                        ticks>>
         /\ UNCHANGED histVars

adjust_throttle ==
    /\ UNCHANGED <<attVars, stageVars>>
    /\ \E isFloat \in BOOLEAN :
       \E throttle \in IF isFloat THEN ThrottleInputs ELSE {NotAFloat} :
        adjust_throttle_call(isFloat, throttle)

\* rocket.ignite_srbs()
ignite_srbs ==
    /\ UNCHANGED <<attVars, stageVars>>
    /\ srbs' = [i \in 1..Len(srbs) |->
                  set_throttle(srbs[i], TRUE, R(Percent)).stage]
    /\ Done
    /\ UNCHANGED <<stages, payloads, momentum, roll_rate, nextId, ticks>>
    /\ UNCHANGED histVars

\* rocket.stages[i].set_throttle(throttle): the driver commands a stage it
\* holds directly, whether that stage is active or in reserve.
throttle_stage_call(i, isFloat, throttle) ==
    LET r == set_throttle(stages[i], isFloat, throttle)
    IN  /\ stages' = [stages EXCEPT ![i] = r.stage]
        /\ result' = IF r.result = "ok" THEN "ok" ELSE "error"
        /\ UNCHANGED <<srbs, payloads, momentum, roll_rate, nextId, ticks>>
        /\ UNCHANGED histVars

throttle_stage ==
    /\ UNCHANGED <<attVars, stageVars>>
    /\ \E i \in 1..Len(stages) :
       \E isFloat \in BOOLEAN :
       \E throttle \in IF isFloat THEN DirectThrottles ELSE {NotAFloat} :
        throttle_stage_call(i, isFloat, throttle)

\* The simulation driver's integration step: rocket.momentum = ...
integrate ==
    /\ UNCHANGED <<attVars, stageVars>>
    /\ \E p \in Momenta : momentum' = p
    /\ Done
    /\ UNCHANGED <<stages, srbs, payloads, roll_rate, nextId, ticks>>
    /\ UNCHANGED histVars

\* Rocket.__init__, and the history variables at their start.
RocketInit ==
    /\ stages = <<>>
    /\ srbs = <<>>
    /\ payloads = <<>>
    /\ momentum = ZeroVector
    /\ axis = 0
    /\ roll_rate = 0
    /\ result = "ok"
    /\ nextId = 1
    /\ ticks = 0
    /\ added = <<>>
    /\ nSep = 0
    /\ jettisoned = {}
    /\ expected = 0

\* The Stage under test in SpecStage begins as Stage(options).
UnitInit(options) ==
    /\ StageValid(options)
    /\ unit = Stage(0, options)
    /\ unit0 = unit
    /\ run_dt = Zero
    /\ run_n = 0

Init == RocketInit /\ UnitInit(CHOOSE o \in StageOptions : StageValid(o))

Next ==
    \/ add_stage
    \/ add_srb
    \/ add_payload
    \/ update_total_mass
    \/ separate_active_stage
    \/ separate_srbs
    \/ set_roll_rate(RollRates)
    \/ adjust_throttle
    \/ ignite_srbs
    \/ throttle_stage
    \/ integrate

Spec == Init /\ [][Next]_vars

----------------------------------------------------------------------------
(* SpecStage: one Stage, called directly. *)

rocketVars == <<stages, srbs, payloads, momentum, roll_rate, nextId>>

\* unit.set_throttle(x).  An accepted call begins a new run of updates.
stage_set_throttle ==
    /\ UNCHANGED <<rocketVars, attVars, histVars, ticks>>
    /\ \E isFloat \in BOOLEAN :
       \E throttle \in IF isFloat THEN StageThrottles ELSE {NotAFloat} :
        LET r == set_throttle(unit, isFloat, throttle)
        IN  /\ unit' = r.stage
            /\ result' = IF r.result = "ok" THEN "ok" ELSE "error"
            /\ IF r.result = "ok"
               THEN unit0' = unit' /\ run_n' = 0 /\ run_dt' = Zero
               ELSE UNCHANGED <<unit0, run_n, run_dt>>

\* unit.update_mass(dt).  run_n counts the consecutive updates made with the
\* same dt since the throttle was last set; unit0 is the stage before them.
stage_update_mass ==
    /\ UNCHANGED <<rocketVars, attVars, histVars>>
    /\ ticks < MaxRun
    /\ ticks' = ticks + 1
    /\ \E time_step \in StageTimeSteps :
        /\ unit' = update_mass(unit, time_step)
        /\ run_dt' = time_step
        /\ IF run_n = 0 \/ time_step = run_dt
           THEN run_n' = run_n + 1 /\ UNCHANGED unit0
           ELSE run_n' = 1 /\ unit0' = unit
    /\ Done

InitStage == RocketInit /\ \E o \in StageOptions : UnitInit(o)

NextStage ==
    \/ stage_set_throttle
    \/ stage_update_mass

SpecStage == InitStage /\ [][NextStage]_vars

----------------------------------------------------------------------------
(* SpecAtt: the rocket's orientation. *)

\* Rocket.attitude: arccos(axis . (0,1,0)) = arccos(cos a), the angle folded
\* into [0, pi].
attitude == IF axis <= FullTurn \div 2 THEN axis ELSE FullTurn - axis

\* rocket.set_attitude(dt): theta = attitude + roll_rate * dt, then
\* axis = (sin theta, cos theta, 0).hat().
set_attitude ==
    /\ UNCHANGED <<stages, srbs, payloads, momentum, roll_rate, nextId, ticks>>
    /\ UNCHANGED <<histVars, stageVars>>
    /\ \E time_step \in TurnSteps :
        LET theta == attitude + roll_rate * time_step
        IN  /\ axis' = theta % FullTurn
            /\ expected' = (expected + roll_rate * time_step) % FullTurn
    /\ Done

NextAtt ==
    \/ set_roll_rate(TurnRates)
    \/ set_attitude

SpecAtt == Init /\ [][NextAtt]_vars

----------------------------------------------------------------------------
(* Properties. *)

Ids(s) == [i \in 1..Len(s) |-> s[i].id]

IdSet(s) == {s[i].id : i \in 1..Len(s)}

StageIds == {added[i] : i \in 1..Len(added)}

\* C1: in every reachable state every stage's and booster's fuel_mass is
\* >= 0 and the rocket's total_mass is >= 0.
C1_MassNeverNegative ==
    /\ \A i \in 1..Len(stages) : float_ge(stages[i].fuel_mass, Zero)
    /\ \A i \in 1..Len(srbs) : float_ge(srbs[i].fuel_mass, Zero)
    /\ float_ge(total_mass, Zero)

\* C2: with at least one stage, total_mass M > 0 and momentum P,
\* separate_active_stage succeeds, removes exactly stages[0] and leaves
\* momentum = P * (M'/M), M' the total_mass after the removal; when M' > 0 the
\* velocity momentum/total_mass is the same before and after.
C2_SeparationScalesMomentum ==
    [][ (Len(stages) >= 1 /\ float_gt(total_mass, Zero)
            /\ separate_active_stage)
        => LET M == total_mass
               M1 == total_mass_of(srbs', stages', payloads')
           IN  /\ result' = "ok"
               /\ stages' = Tail(stages)
               /\ srbs' = srbs /\ payloads' = payloads
               /\ momentum' = vector_rmul(float_div(M1, M), momentum)
               /\ float_gt(M1, Zero)
                     => vector_div(momentum', M1) = vector_div(momentum, M)
      ]_vars

\* A stage has been separated from a moving rocket, no booster has, and mass
\* remains: the momentum is a proper fraction of what the driver set.
C2_Witness ==
    /\ nSep >= 1
    /\ jettisoned \subseteq StageIds
    /\ result = "ok"
    /\ float_gt(total_mass, Zero)
    /\ momentum # ZeroVector
    /\ momentum \notin Momenta

InRange(throttle) ==
    float_le(Zero, throttle) /\ float_le(throttle, R(Percent))

BurnOf(stage, dt) ==
    float_div(float_mul(float_mul(stage.max_dmdt, dt), stage.throttle),
              R(Percent))

\* after is before with exactly that much fuel less and nothing else changed.
Burned(before, after, dt) ==
    after = [before EXCEPT
                !.fuel_mass = float_sub(before.fuel_mass, BurnOf(before, dt))]

\* C4: a successful update_total_mass(dt) has dt > 0, takes max_dmdt *
\* throttle/100 * dt from the fuel of the active stage and of every booster,
\* and leaves alone the reserve stages, every dry_mass and throttle, the
\* payloads, the momentum and the membership and order of stages and srbs.
C4_UpdateBurnsActiveAndBoosters ==
    [][ (ticks' = ticks + 1)
        => \E dt \in TimeSteps :
            /\ float_gt(dt, Zero)
            /\ Len(stages') = Len(stages)
            /\ Len(srbs') = Len(srbs)
            /\ Len(stages) > 0 => Burned(stages[1], stages'[1], dt)
            /\ \A i \in 2..Len(stages) : stages'[i] = stages[i]
            /\ \A i \in 1..Len(srbs) : Burned(srbs[i], srbs'[i], dt)
            /\ payloads' = payloads
            /\ momentum' = momentum
            /\ roll_rate' = roll_rate
      ]_vars

\* An update has burnt fuel of the active stage and none of a reserve stage
\* whose throttle is open.
C4_Witness ==
    /\ ticks >= 1
    /\ Len(stages) = 2
    /\ float_gt(stages[1].throttle, Zero)
    /\ float_lt(stages[1].fuel_mass, R(1))
    /\ float_gt(stages[2].throttle, Zero)
    /\ float_gt(stages[2].max_dmdt, Zero)
    /\ stages[2].fuel_mass = R(1)

\* C5: a call that ends in an error leaves the stage sequence, the boosters,
\* the payloads, every fuel_mass and throttle, the momentum, the axis and the
\* roll_rate exactly as they were.
C5_ErrorLeavesStateUnchanged ==
    [][ (result' = "error")
        => UNCHANGED <<stages, srbs, payloads, momentum, axis, roll_rate>>
      ]_vars

\* A call has failed on a rocket that holds a stage and is moving.
C5_Witness ==
    /\ result = "error"
    /\ stages # <<>>
    /\ momentum # ZeroVector

\* C6: separate_active_stage on an empty stage sequence and separate_srbs on
\* an empty booster list each end in an error.
C6_EmptySeparationRejected ==
    [][ /\ (stages = <<>> /\ separate_active_stage) => result' = "error"
        /\ (srbs = <<>> /\ separate_srbs) => result' = "error"
      ]_vars

\* C7 as stated: with at least one booster and total_mass > 0, separate_srbs
\* empties the booster list, leaves stages and payloads alone, and the
\* velocity momentum/total_mass after the call is the one before it.
C7_SrbSeparationKeepsVelocity ==
    [][ (Len(srbs) >= 1 /\ float_gt(total_mass, Zero) /\ separate_srbs)
        => LET M == total_mass
               M1 == total_mass_of(srbs', stages', payloads')
           IN  /\ result' = "ok"
               /\ srbs' = <<>>
               /\ stages' = stages /\ payloads' = payloads
               /\ M1 # Zero
               /\ vector_div(momentum', M1) = vector_div(momentum, M)
      ]_vars

\* C7 amended: ... and the momentum after the call is P * (M'/M), so that
\* the velocity after the call is the one before it whenever the total_mass
\* M' after the call is > 0.
C7_SrbSeparationKeepsVelocityIfMassRemains ==
    [][ (Len(srbs) >= 1 /\ float_gt(total_mass, Zero) /\ separate_srbs)
        => LET M == total_mass
               M1 == total_mass_of(srbs', stages', payloads')
           IN  /\ result' = "ok"
               /\ srbs' = <<>>
               /\ stages' = stages /\ payloads' = payloads
               /\ momentum' = vector_rmul(float_div(M1, M), momentum)
               /\ float_gt(M1, Zero)
                    => vector_div(momentum', M1) = vector_div(momentum, M)
      ]_vars

\* Boosters, and no stage, have been separated from a moving rocket, and
\* mass remains: the momentum is a proper fraction of what the driver set.
C7_Witness ==
    /\ nSep = 0
    /\ jettisoned # {}
    /\ srbs = <<>>
    /\ result = "ok"
    /\ float_gt(total_mass, Zero)
    /\ momentum # ZeroVector
    /\ momentum \notin Momenta

\* n * max_dmdt * throttle/100 * dt
BurnOfRun(stage, n, dt) ==
    float_mul(float_div(float_mul(float_mul(R(n), stage.max_dmdt),
                                  stage.throttle),
                        R(Percent)),
              dt)

\* C8 as stated: with throttle > 0 and dt > 0 every update_mass(dt) strictly
\* decreases fuel_mass, and after n calls with the same dt and an unchanged
\* throttle the decrease is n * max_dmdt * throttle/100 * dt.
C8_BurnStrictAndLinear ==
    [][ (ticks' = ticks + 1 /\ float_gt(unit.throttle, Zero)
            /\ float_gt(run_dt', Zero))
        => /\ float_lt(unit'.fuel_mass, unit.fuel_mass)
           /\ float_sub(unit0'.fuel_mass, unit'.fuel_mass)
                 = BurnOfRun(unit, run_n', run_dt')
      ]_vars

\* C8 amended: the decrease is strict when, besides, max_dmdt > 0.
C8_BurnStrictIfFlowAndLinear ==
    [][ (ticks' = ticks + 1 /\ float_gt(unit.throttle, Zero)
            /\ float_gt(run_dt', Zero))
        => /\ float_gt(unit.max_dmdt, Zero)
                 => float_lt(unit'.fuel_mass, unit.fuel_mass)
           /\ float_sub(unit0'.fuel_mass, unit'.fuel_mass)
                 = BurnOfRun(unit, run_n', run_dt')
      ]_vars

\* Three updates with the same dt > 0 at half throttle have burnt fuel.
C8_Witness ==
    /\ run_n = 3
    /\ unit.throttle = R(50)
    /\ float_gt(run_dt, Zero)
    /\ float_gt(unit.max_dmdt, Zero)
    /\ float_lt(unit.fuel_mass, unit0.fuel_mass)

\* C9: the stage sequence is the stages handed to add_stage, in call order,
\* without the first nSep of them, and no separated stage or booster is in
\* stages or srbs.
C9_StagingIsFifo ==
    /\ nSep <= Len(added)
    /\ Ids(stages) = SubSeq(added, nSep + 1, Len(added))
    /\ jettisoned \cap (IdSet(stages) \cup IdSet(srbs)) = {}

\* The first stage added has been separated and the second is active.
C9_Witness ==
    /\ nSep = 1
    /\ Len(added) = 2
    /\ Len(stages) = 1
    /\ stages[1].id = added[2]

\* C10: after any number of set_attitude calls the axis stands at the sum of
\* roll_rate * dt over those calls (modulo a full turn) from up.
C10_AxisFollowsRollRate == axis = expected

====
